---- MODULE Spec2Model ----
(***************************************************************************)
(* Model of the sync orchestrator of Neon-Postgres-Sync (src/src/sync.ts)  *)
(* together with the parts of src/src/db.ts and src/src/config.ts it       *)
(* calls.  Every command invocation is a task; a task advances from one    *)
(* suspension point (an await on I/O) to the next in one atomic step, as   *)
(* the single-threaded event loop runs it.  The editor (views, documents,  *)
(* the closeActiveEditor command queue) and the user are the environment.  *)
(*                                                                         *)
(* Environment assumptions: unlinking a scratch file does not fail; a text *)
(* document, once opened, stays in workspace.textDocuments; the contents   *)
(* of the local file and of the remote record change only through this     *)
(* program.                                                                *)
(***************************************************************************)
EXTENDS Integers, Sequences, FiniteSets, Bags, TLC

\* ---------------------------------------------------------------- bounds
MaxStarts == 2      \* start invocations (download or upload) in a behaviour
MaxClock  == 1      \* readings of Date.now() are in 0..MaxClock
MaxTasks  == 2      \* command invocations suspended at the same time
MaxNameLen == 3     \* length of the table names tried on DatabaseService
MaxDbCalls == 1     \* fetchRecord/updateRecord calls in flight together
MaxSets    == 1     \* setConnectionString calls in a behaviour
MaxDbClock == 1     \* readings of CURRENT_TIMESTAMP are in 0..MaxDbClock
MaxPicks   == 3     \* downloadFile/uploadFile commands in a behaviour
MaxPickCalls == 2   \* downloadFile/uploadFile commands in flight together

\* ------------------------------------------------------ contents, as text
\* File and record contents are character sequences.
Contents == { <<>>, <<" ">>, <<"a">>, <<" ", "a">> }

\* What the user types over the candidate side of a diff view.
EditContents == { <<" ">>, <<" ", "a">> }

RECURSIVE TrimStart(_)
TrimStart(s) == IF s # <<>> /\ Head(s) = " " THEN TrimStart(Tail(s)) ELSE s

RECURSIVE TrimEnd(_)
TrimEnd(s) ==
    IF s # <<>> /\ s[Len(s)] = " " THEN TrimEnd(SubSeq(s, 1, Len(s) - 1)) ELSE s

\* String.prototype.trim
Trim(s) == TrimEnd(TrimStart(s))

\* Mutant of IsBlank: the trimmed comparison is left out.
IsBlankEmptyOnly(s) == s = <<>>

\* !candidateContent || candidateContent.trim() === ''
IsBlank(s) == s = <<>> \/ Trim(s) = <<>>

\* A file (or a record) that may be absent.
NoFile == [exists |-> FALSE, data |-> <<>>]
File(c) == [exists |-> TRUE, data |-> c]
FileStates == {NoFile} \cup { File(c) : c \in Contents }

\* --------------------------------------------------------- table names
Letters == {"j", "r", "x"}
Digits  == {"1"}

IsIdentStart(c) == c \in Letters \cup {"_"}
IsIdentChar(c)  == IsIdentStart(c) \/ c \in Digits

\* [a-zA-Z_][a-zA-Z0-9_]*
IsIdent(s) ==
    /\ Len(s) > 0
    /\ IsIdentStart(s[1])
    /\ \A i \in 2..Len(s) : IsIdentChar(s[i])

\* Mutant of validateTableName: the pattern is not anchored at the end.
validateTableNameUnanchored(s) ==
    \E n \in 1..Len(s) : IsIdent(SubSeq(s, 1, n))

\* /^[a-zA-Z_][a-zA-Z0-9_]*(\.[a-zA-Z_][a-zA-Z0-9_]*)?$/.test(tableName)
validateTableName(s) ==
    \/ IsIdent(s)
    \/ \E k \in 1..Len(s) :
          /\ s[k] = "."
          /\ IsIdent(SubSeq(s, 1, k - 1))
          /\ IsIdent(SubSeq(s, k + 1, Len(s)))

\* ------------------------------------------------------------- profiles
\* The profile configuration document.  "bad" carries the table name
\* "j;x" (an injection attempt); the name "ghost" is not configured.
ConfigProfiles ==
    { [name |-> "cfg", filePath |-> "settings.json", id |-> "app-settings",
       tableName |-> <<"j", "_", "r">>],
      [name |-> "bad", filePath |-> "settings.json", id |-> "app-settings",
       tableName |-> <<"j", ";", "x">>] }

ProfileNames == {"cfg", "bad", "ghost"}

HasProfile(n) == \E p \in ConfigProfiles : p.name = n
getProfile(n) == CHOOSE p \in ConfigProfiles : p.name = n

FilePaths  == { p.filePath : p \in ConfigProfiles }
RecordKeys == { <<p.tableName, p.id>> : p \in ConfigProfiles }
RecordKey(p) == <<p.tableName, p.id>>

\* ---------------------------------------------------------- scratch paths
\* path.join(os.tmpdir(), `${side}_${profile.name}_${Date.now()}${ext}`)
ScratchPath(side, n, t) == [side |-> side, name |-> n, t |-> t]
NoPath == [side |-> "none", name |-> "", t |-> 0]
ScratchPaths ==
    { ScratchPath(s, p.name, t) :
        s \in {"local", "remote"}, p \in ConfigProfiles, t \in 0..MaxClock }

\* ---------------------------------------------------------------- session
NoSession ==
    [active |-> FALSE, type |-> "none", profile |-> "",
     candidateUri |-> NoPath, tempFiles |-> <<NoPath, NoPath>>]

SyncSession(type, n, left, right) ==
    [active |-> TRUE, type |-> type, profile |-> n,
     candidateUri |-> right, tempFiles |-> <<left, right>>]

\* ------------------------------------------------------------------ tasks
\* A command invocation: its position (pc) and its local variables.
\* onSession is the session the command was invoked on.
NewTask ==
    [kind |-> "none", pc |-> "new", profile |-> "",
     remoteContent |-> <<>>, localContent |-> <<>>,
     left |-> NoPath, right |-> NoPath,
     doc |-> NoPath, content |-> <<>>, onSession |-> NoSession]

\* What an invocation reports in the step in which it returns: the message
\* shown, the content confirmSync had resolved, the write that failed (if
\* any), the session it was invoked on and the scratch paths it has written
\* (a start only).
NoReport ==
    [kind |-> "none", msg |-> "none", content |-> <<>>, failed |-> "none",
     session |-> NoSession, tempFiles |-> <<NoPath, NoPath>>]

Report(tk, m, f) ==
    [kind |-> tk.kind, msg |-> m, content |-> tk.content, failed |-> f,
     session |-> tk.onSession, tempFiles |-> <<tk.left, tk.right>>]

ClosedDoc == [open |-> FALSE, dirty |-> FALSE, text |-> <<>>]

VARIABLES
    localFile,       \* [FilePaths -> FileStates]: the local files
    remote,          \* [RecordKeys -> FileStates]: the remote records
    credential,      \* TRUE when a connection string is configured
    now,             \* the last reading of Date.now() (-1: none yet; the
                     \* first reading is 0)
    started,         \* number of start invocations so far
    tmpFiles,        \* [ScratchPaths -> FileStates]: files in os.tmpdir()
    docs,            \* [ScratchPaths -> document]: workspace.textDocuments
                     \* (the documents of candidate copies; the reference
                     \* side of a diff view is read-only and never read)
    visible,         \* the diff views that are visible, as <<left, right>>
    currentSession,  \* SyncManager.currentSession
    liveListeners,   \* close listeners registered and not disposed
    pendingClose,    \* closeActiveEditor commands issued and not yet run
    isSyncing,       \* the context key neonSync.isSyncing, as last issued
    tasks,           \* bag of the suspended command invocations
    report,          \* the report of the invocation that returned in the
                     \* last step, NoReport if none did
    \* DatabaseService and the credential store, used by DbSpec
    dbTableName,     \* profile.tableName of the profile the calls are for
    secret,          \* SecretStorage entry neonSync.connectionString
    sqlCache,        \* DatabaseService.sqlCache, as a set of entries
    isConnectionStringListenerRegistered,
    dbCalls,         \* bag of the fetchRecord/updateRecord calls in flight
    setCalls,        \* bag of the setConnectionString calls in flight
    setsDone,        \* number of setConnectionString calls that returned
    rows,            \* [DbIds -> row]: the table dbTableName
    queried,         \* the table names a query was executed with
    dbNow,           \* the last reading of CURRENT_TIMESTAMP (-1: none)
    dbReport,        \* outcome of the call that returned in the last step
    \* The downloadFile / uploadFile commands, used by MruSpec
    entry,           \* the module whose activate registered the commands
    configured,      \* ConfigManager.getProfiles(), as the profile names
    profileOrder,    \* the closure variable profileOrder (config.ts 183)
    lastUsedProfile, \* the module variable lastUsedProfile (extension.ts
                     \* 7), "" for undefined
    globalState,     \* the value stored under neonSync.profileOrder
    pickCalls,       \* bag of the command invocations in flight
    picked,          \* number of command invocations so far
    usage,           \* history: the configured names selected so far,
                     \* the most recent first
    pickReport       \* what the command that moved in the last step did

syncVars == <<localFile, remote, credential, now, started, tmpFiles, docs,
              visible, currentSession, liveListeners, pendingClose,
              isSyncing, tasks, report>>

dbVars == <<dbTableName, secret, sqlCache,
            isConnectionStringListenerRegistered, dbCalls, setCalls,
            setsDone, rows, queried, dbNow, dbReport>>

mruVars == <<entry, configured, profileOrder, lastUsedProfile, globalState,
             pickCalls, picked, usage, pickReport>>

vars == <<syncVars, dbVars, mruVars>>

storeVars  == <<localFile, remote>>
editorVars == <<docs, visible>>
sessVars   == <<currentSession, liveListeners, pendingClose, tmpFiles,
                isSyncing>>

\* ------------------------------------- DatabaseService: values and state
\* The characters table names are made of in DbSpec.
NameChars == {"j", "1", "_", ".", ";"}

\* The strings over NameChars of length up to n.
RECURSIVE Strings(_)
Strings(n) ==
    IF n = 0 THEN { <<>> }
    ELSE LET shorter == Strings(n - 1)
         IN shorter \cup { Append(t, c) :
                              t \in { u \in shorter : Len(u) = n - 1 },
                              c \in NameChars }

\* The table names tried: every short string, and the configured ones.
DbNames == Strings(MaxNameLen) \cup { p.tableName : p \in ConfigProfiles }

\* Connection URLs the user enters; the empty string stands for no entry.
Urls == { <<"a">>, <<"b", " ">> }

\* neon(connectionString): a handle remembers the string it was built from.
NoHandle == [builtFrom |-> <<>>]
neon(connectionString) == [builtFrom |-> connectionString]

\* The rows of the table, by id: columns data, create_time, update_time.
DbIds == {"app-settings", "other"}
NoRow == [exists |-> FALSE, data |-> <<>>, create_time |-> 0, update_time |-> 0]
Row(d, c, u) == [exists |-> TRUE, data |-> d, create_time |-> c, update_time |-> u]

\* The data updateRecord is called with.
DbData == { <<"a">>, <<" ", "a">> }

NoDbReport == [op |-> "none", msg |-> "none"]

\* DatabaseService before its first call, with no credential change under
\* way.
DbFresh ==
    /\ sqlCache = {}
    /\ isConnectionStringListenerRegistered = FALSE
    /\ dbCalls = EmptyBag
    /\ setCalls = EmptyBag
    /\ setsDone = 0
    /\ rows = [i \in DbIds |->
                 IF i = "other" THEN Row(<<"a">>, 0, 0) ELSE NoRow]
    /\ queried = {}
    /\ dbNow = -1
    /\ dbReport = NoDbReport

\* The local file and the remote record of profile "cfg" at the start, as
\* <<local, remote>>: local file absent or present, record missing or
\* present, contents identical or not, blank or not.
InitialStores ==
    { <<NoFile, File(<<>>)>>,
      <<NoFile, File(<<" ", "a">>)>>,
      <<File(<<"a">>), File(<<" ", "a">>)>>,
      <<File(<<" ", "a">>), File(<<" ", "a">>)>>,
      <<File(<<" ">>), File(<<"a">>)>>,
      <<File(<<"a">>), NoFile>> }

\* The orchestrator after construction, with the stores it starts from.
SyncInit ==
    /\ \E st \in InitialStores :
          /\ localFile = [f \in FilePaths |-> st[1]]
          /\ remote = [k \in RecordKeys |->
                         IF validateTableName(k[1]) THEN st[2] ELSE NoFile]
          /\ credential \in
                IF st = <<File(<<"a">>), File(<<" ", "a">>)>>
                THEN BOOLEAN ELSE {TRUE}
    /\ now = -1
    /\ started = 0
    /\ tmpFiles = [p \in ScratchPaths |-> NoFile]
    /\ docs = [p \in ScratchPaths |-> ClosedDoc]
    /\ visible = {}
    /\ currentSession = NoSession
    /\ liveListeners = 0
    /\ pendingClose = 0
    /\ isSyncing = FALSE
    /\ tasks = EmptyBag
    /\ report = NoReport

NoPickReport == [msg |-> "none", items |-> <<>>, selected |-> ""]

\* The profile commands before their first invocation, given the profile
\* names of the configuration file and the order stored in globalState
\* by an earlier window (config.ts 183, extension.ts 7).
MruFresh(profiles, stored) ==
    /\ configured = profiles
    /\ profileOrder = stored
    /\ lastUsedProfile = ""
    /\ globalState = stored
    /\ pickCalls = EmptyBag
    /\ picked = 0
    /\ usage = SelectSeq(stored,
                         LAMBDA n : \E i \in 1..Len(profiles) : profiles[i] = n)
    /\ pickReport = NoPickReport

\* Spec looks at DatabaseService through fetchRecord and updateRecord as a
\* whole (StartFetch, ConfirmWrite): its own state stays as constructed.
\* The start commands are invoked with a profile name (StartInvoke); the
\* selection of that name is the subject of MruSpec.
Init ==
    /\ SyncInit
    /\ dbTableName = <<"j", "_", "r">>
    /\ secret = IF credential THEN <<"a">> ELSE <<>>
    /\ DbFresh
    /\ entry = "config"
    /\ MruFresh(<<"cfg", "bad">>, <<>>)

\* ------------------------------------------------- session-state operators
\* The part of the state cleanupSession works on, as a record.
Cur ==
    [sess |-> currentSession, lis |-> liveListeners, pend |-> pendingClose,
     tmp |-> tmpFiles, sync |-> isSyncing]

Apply(e) ==
    /\ currentSession' = e.sess
    /\ liveListeners' = e.lis
    /\ pendingClose' = e.pend
    /\ tmpFiles' = e.tmp
    /\ isSyncing' = e.sync

TempFileSet(sess) == { sess.tempFiles[1], sess.tempFiles[2] }

\* Mutant of cleanupSession: the guard on the slot is left out.
cleanupSessionUnguarded(e, closeEditor) ==
    [sess |-> NoSession,
     lis  |-> e.lis - 1,
     pend |-> IF closeEditor THEN e.pend + 1 ELSE e.pend,
     tmp  |-> [p \in ScratchPaths |->
                 IF p \in TempFileSet(e.sess) THEN NoFile ELSE e.tmp[p]],
     sync |-> FALSE]

\* Mutant of cleanupSession: the slot is not cleared.
cleanupSessionSlotKept(e, closeEditor) ==
    IF e.sess.active
    THEN [sess |-> e.sess,
          lis  |-> e.lis - 1,
          pend |-> IF closeEditor THEN e.pend + 1 ELSE e.pend,
          tmp  |-> [p \in ScratchPaths |->
                      IF p \in TempFileSet(e.sess) THEN NoFile ELSE e.tmp[p]],
          sync |-> FALSE]
    ELSE e

\* Mutant of cleanupSession: setContext(false) is not issued.
cleanupSessionFlagKept(e, closeEditor) ==
    IF e.sess.active
    THEN [sess |-> NoSession,
          lis  |-> e.lis - 1,
          pend |-> IF closeEditor THEN e.pend + 1 ELSE e.pend,
          tmp  |-> [p \in ScratchPaths |->
                      IF p \in TempFileSet(e.sess) THEN NoFile ELSE e.tmp[p]],
          sync |-> e.sync]
    ELSE e

\* SyncManager.cleanupSession(closeEditor)
cleanupSession(e, closeEditor) ==
    IF e.sess.active
    THEN [sess |-> NoSession,
          lis  |-> e.lis - 1,
          pend |-> IF closeEditor THEN e.pend + 1 ELSE e.pend,
          tmp  |-> [p \in ScratchPaths |->
                      IF p \in TempFileSet(e.sess) THEN NoFile ELSE e.tmp[p]],
          sync |-> FALSE]
    ELSE e

\* The documents shown by a set of visible diff views.
VisiblePaths(vis) == UNION { {v[1], v[2]} : v \in vis }

\* Mutant of onDidChangeVisibleTextEditors: the callback does nothing.
onDidChangeIgnored(e, vis) == e

\* The callback registered by registerEditorCloseListener, run on an
\* onDidChangeVisibleTextEditors event whose editors show the views vis.
\* Every live listener runs the same callback on the current session.
onDidChangeVisibleTextEditors(e, vis) ==
    IF e.lis = 0 \/ ~e.sess.active THEN e
    ELSE IF e.sess.candidateUri \in VisiblePaths(vis) THEN e
    ELSE cleanupSession(e, FALSE)

\* ------------------------------------------------------------ task helpers
Suspended == BagToSet(tasks)

\* The bag without the invocation old (a new invocation is not in it yet).
Without(old) == IF old.pc = "new" THEN tasks ELSE tasks (-) SetToBag({old})

\* The invocation old is suspended again, as tk.
Goto(old, tk) ==
    /\ tasks' = Without(old) (+) SetToBag({tk})
    /\ report' = NoReport
    /\ UNCHANGED <<dbVars, mruVars>>

\* The invocation old returns, reporting m (and the failed write f).
Finish(old, tk, m, f) ==
    /\ tasks' = Without(old)
    /\ report' = Report(tk, m, f)
    /\ UNCHANGED <<dbVars, mruVars>>

CanInvoke == BagCardinality(tasks) < MaxTasks

\* vscode.workspace.openTextDocument(uri) on a scratch path: the document
\* is created from the file unless it is already open.
openTextDocument(d, tmp, p) ==
    IF ~d[p].open /\ tmp[p].exists
    THEN [d EXCEPT ![p] = [open |-> TRUE, dirty |-> FALSE, text |-> tmp[p].data]]
    ELSE d

\* The documents once no view of the set gone is shown any more: the
\* candidate documents of these views are disposed, unless a suspended
\* confirmSync holds one.
closeDocuments(d, gone) ==
    [p \in ScratchPaths |->
        IF (\E v \in gone : p = v[2]) /\ (\A tk \in Suspended : tk.doc # p)
        THEN ClosedDoc ELSE d[p]]

\* ------------------------------------------------- startDownload / Upload
\* The readings Date.now() can return: the last one or a later one.
Readings == IF now < 0 THEN {0} ELSE now..MaxClock

\* Mutant of StartAbort: the failure path cleans up the current session.
StartAbortCleaning(old, m) ==
    /\ Finish(old, old, m, "none")
    /\ Apply(cleanupSession(Cur, FALSE))

\* An early return, or the catch block (sync.ts 103-105, 164-166): the
\* outcome is reported and nothing else is touched.
StartAbort(old, m) ==
    /\ Finish(old, old, m, "none")
    /\ UNCHANGED sessVars

\* Mutant of IsIdentical: the short-circuit is missing from startDownload.
IsIdenticalUploadOnly(kind, lf, localContent, remoteContent) ==
    kind = "upload" /\ localContent = remoteContent

\* fs.existsSync(absolutePath) && localContent === remoteContentFormatted
\* (sync.ts 69) and localData === remoteContent (sync.ts 131).
IsIdentical(kind, lf, localContent, remoteContent) ==
    IF kind = "download"
    THEN lf.exists /\ localContent = remoteContent
    ELSE localContent = remoteContent

\* Mutant of EarlyReturn: a missing record stops startUpload too.
EarlyReturnNoRecordAlways(kind, lf, rd) ==
    LET localContent  == IF lf.exists THEN lf.data ELSE <<>>
        remoteContent == IF rd.exists THEN rd.data ELSE <<>>
    IN IF ~rd.exists THEN "NoRecord"
       ELSE IF kind = "upload" /\ ~lf.exists THEN "LocalFileMissing"
       ELSE IF IsIdentical(kind, lf, localContent, remoteContent)
       THEN "Identical"
       ELSE "none"

\* Mutant of EarlyReturn: startUpload does not test that the local file
\* exists.
EarlyReturnLocalOptional(kind, lf, rd) ==
    LET localContent  == IF lf.exists THEN lf.data ELSE <<>>
        remoteContent == IF rd.exists THEN rd.data ELSE <<>>
    IN IF kind = "download" /\ ~rd.exists THEN "NoRecord"
       ELSE IF IsIdentical(kind, lf, localContent, remoteContent)
       THEN "Identical"
       ELSE "none"

\* The early returns after the fetch (sync.ts 53-72 and 124-134), as the
\* message shown, "none" when the start goes on.  lf is the local file and
\* rd the remote record; a missing one reads as empty.
EarlyReturn(kind, lf, rd) ==
    LET localContent  == IF lf.exists THEN lf.data ELSE <<>>
        remoteContent == IF rd.exists THEN rd.data ELSE <<>>
    IN IF kind = "download" /\ ~rd.exists THEN "NoRecord"
       ELSE IF kind = "upload" /\ ~lf.exists THEN "LocalFileMissing"
       ELSE IF IsIdentical(kind, lf, localContent, remoteContent)
       THEN "Identical"
       ELSE "none"

\* Registration of the session (sync.ts 92-100 and 153-161): the slot is
\* overwritten, a close listener is registered, setContext(true) is issued
\* and the task waits for it and for vscode.diff.
Register(old, tk, tmp) ==
    /\ currentSession' = SyncSession(tk.kind, tk.profile, tk.left, tk.right)
    /\ liveListeners' = liveListeners + 1
    /\ isSyncing' = TRUE
    /\ tmpFiles' = tmp
    /\ Goto(old, [tk EXCEPT !.pc = "diff"])
    /\ UNCHANGED pendingClose

\* Mutant of Materialize: the two copies get each other's content.
MaterializeSwapped(old, tk0, languageId) ==
    LET leftSide  == IF tk0.kind = "download" THEN "local" ELSE "remote"
        rightSide == IF tk0.kind = "download" THEN "remote" ELSE "local"
        left  == ScratchPath(leftSide, tk0.profile, now')
        right == ScratchPath(rightSide, tk0.profile, now')
        leftData  == IF tk0.kind = "download" THEN tk0.remoteContent
                                              ELSE tk0.localContent
        rightData == IF tk0.kind = "download" THEN tk0.localContent
                                              ELSE tk0.remoteContent
        tk   == [tk0 EXCEPT !.left = left, !.right = right,
                            !.localContent = <<>>, !.remoteContent = <<>>]
        tmp1 == [tmpFiles EXCEPT ![left] = File(leftData)]
        tmp2 == [tmp1 EXCEPT ![right] = File(rightData)]
    IN \/ /\ Finish(old, tk0, "ScratchWriteError", "none")  \* left throws
          /\ UNCHANGED sessVars
       \/ /\ Finish(old, [tk0 EXCEPT !.left = left],      \* right throws
                    "ScratchWriteError", "none")
          /\ tmpFiles' = tmp1
          /\ UNCHANGED <<currentSession, liveListeners, pendingClose,
                         isSyncing>>
       \/ /\ languageId
          /\ Goto(old, [tk EXCEPT !.pc = "setlang"])
          /\ tmpFiles' = tmp2
          /\ UNCHANGED <<currentSession, liveListeners, pendingClose,
                         isSyncing>>
       \/ /\ ~languageId
          /\ Register(old, tk, tmp2)

\* Creation of the two scratch copies (sync.ts 77-90 and 138-151), named
\* after the reading now' of Date.now().  Either writeFileSync may throw;
\* the catch block reports the error.
Materialize(old, tk0, languageId) ==
    LET leftSide  == IF tk0.kind = "download" THEN "local" ELSE "remote"
        rightSide == IF tk0.kind = "download" THEN "remote" ELSE "local"
        left  == ScratchPath(leftSide, tk0.profile, now')
        right == ScratchPath(rightSide, tk0.profile, now')
        leftData  == IF tk0.kind = "download" THEN tk0.localContent
                                              ELSE tk0.remoteContent
        rightData == IF tk0.kind = "download" THEN tk0.remoteContent
                                              ELSE tk0.localContent
        tk   == [tk0 EXCEPT !.left = left, !.right = right,
                            !.localContent = <<>>, !.remoteContent = <<>>]
        tmp1 == [tmpFiles EXCEPT ![left] = File(leftData)]
        tmp2 == [tmp1 EXCEPT ![right] = File(rightData)]
    IN \/ /\ Finish(old, tk0, "ScratchWriteError", "none")  \* left throws
          /\ UNCHANGED sessVars
       \/ /\ Finish(old, [tk0 EXCEPT !.left = left],      \* right throws
                    "ScratchWriteError", "none")
          /\ tmpFiles' = tmp1
          /\ UNCHANGED <<currentSession, liveListeners, pendingClose,
                         isSyncing>>
       \/ /\ languageId
          /\ Goto(old, [tk EXCEPT !.pc = "setlang"])
          /\ tmpFiles' = tmp2
          /\ UNCHANGED <<currentSession, liveListeners, pendingClose,
                         isSyncing>>
       \/ /\ ~languageId
          /\ Register(old, tk, tmp2)

\* The command is invoked: getProfile, then fetchRecord up to its first
\* await (sync.ts 41-52, db.ts 107-113).
StartInvoke(kind, n) ==
    /\ CanInvoke
    /\ started < MaxStarts
    /\ started' = started + 1
    /\ LET tk == [NewTask EXCEPT !.kind = kind, !.profile = n]
       IN IF ~HasProfile(n)
          THEN StartAbort(tk, "ProfileNotFound")
          ELSE IF ~validateTableName(getProfile(n).tableName)
          THEN StartAbort(tk, "InvalidTableName")
          ELSE Goto(tk, [tk EXCEPT !.pc = "fetch"]) /\ UNCHANGED sessVars
    /\ UNCHANGED <<storeVars, credential, now, editorVars>>

\* fetchRecord resolves or rejects (db.ts 49-55, 82-93, 112-118); the code
\* runs on to the next await (sync.ts 53-75 and 122-136).
StartFetch(tk) ==
    /\ tk.pc = "fetch"
    /\ LET p  == getProfile(tk.profile)
           rd == remote[RecordKey(p)]
           lf == localFile[p.filePath]
           remoteContent == IF rd.exists THEN rd.data ELSE <<>>
           localContent  == IF lf.exists THEN lf.data ELSE <<>>
           tk1 == [tk EXCEPT !.remoteContent = remoteContent,
                             !.localContent = localContent]
       IN \/ /\ ~credential                  \* getConnectionString throws
             /\ StartAbort(tk, "NoConnectionString")
             /\ UNCHANGED now
          \/ /\ credential                   \* the query fails
             /\ StartAbort(tk, "FetchError")
             /\ UNCHANGED now
          \/ /\ credential
             /\ IF EarlyReturn(tk.kind, lf, rd) # "none"
                THEN StartAbort(tk, EarlyReturn(tk.kind, lf, rd))
                     /\ UNCHANGED now
                ELSE IF lf.exists
                THEN /\ Goto(tk, [tk1 EXCEPT !.pc = "lang"])
                     /\ UNCHANGED <<sessVars, now>>
                ELSE /\ now' \in Readings
                     /\ Materialize(tk, tk1, FALSE)
    /\ UNCHANGED <<storeVars, credential, started, editorVars>>

\* getLanguageIdForFile resolves (sync.ts 283-298): openTextDocument of the
\* local file gave a language id, or failed and undefined is returned.
StartLang(tk) ==
    /\ tk.pc = "lang"
    /\ now' \in Readings
    /\ \E languageId \in BOOLEAN : Materialize(tk, tk, languageId)
    /\ UNCHANGED <<storeVars, credential, started, editorVars>>

\* Both setDocumentLanguage calls are done (sync.ts 87-90, 303-310): the
\* scratch copies that still exist are open documents; the session is
\* registered.
StartSetLang(tk) ==
    /\ tk.pc = "setlang"
    /\ docs' = openTextDocument(docs, tmpFiles, tk.right)
    /\ Register(tk, tk, tmpFiles)
    /\ UNCHANGED <<storeVars, credential, now, started, visible>>

\* vscode.diff resolves (sync.ts 101, 162): the view is open in front of
\* the view visible before and the visible-editors event is delivered; or
\* the command fails and the catch block reports it.
StartDiff(tk) ==
    /\ tk.pc = "diff"
    /\ LET view == <<tk.left, tk.right>>
       IN \/ /\ Finish(tk, tk, "DiffError", "none")
             /\ UNCHANGED <<editorVars, sessVars>>
          \/ /\ Finish(tk, tk, "Started", "none")
             /\ visible' = {view}
             /\ docs' = openTextDocument(
                           closeDocuments(docs, visible \ {view}),
                           tmpFiles, tk.right)
             /\ Apply(onDidChangeVisibleTextEditors(Cur, visible'))
    /\ UNCHANGED <<storeVars, credential, now, started>>

\* ------------------------------------------------------------ confirmSync
\* The finally block (sync.ts 229-231) after outcome m.
ConfirmFinally(old, tk, m, f, e) ==
    /\ Finish(old, tk, m, f)
    /\ Apply(cleanupSession(e, TRUE))

\* Mutant of ConfirmContinue: Download writes the trimmed content.
ConfirmContinueTrimmed(old, content0, tmp) ==
    LET sess == currentSession
        e    == [Cur EXCEPT !.tmp = tmp]
        cand == sess.candidateUri
        content == IF IsBlank(content0) /\ sess.active /\ tmp[cand].exists
                   THEN tmp[cand].data ELSE content0
        tk   == [old EXCEPT !.content = content]
        path == getProfile(sess.profile).filePath
    IN IF IsBlank(content0) /\ ~sess.active
       THEN ConfirmFinally(old, tk, "ConfirmError", "none", e)
            /\ UNCHANGED localFile
       ELSE IF IsBlank(content)
       THEN ConfirmFinally(old, tk, "Unreadable", "none", e)
            /\ UNCHANGED localFile
       ELSE IF ~sess.active
       THEN ConfirmFinally(old, tk, "ConfirmError", "none", e)
            /\ UNCHANGED localFile
       ELSE IF sess.type = "download"
       THEN \/ /\ localFile' = [localFile EXCEPT
                                  ![path] = File(Trim(content))]
               /\ ConfirmFinally(old, tk, "Downloaded", "none", e)
            \/ /\ UNCHANGED localFile           \* writeFileSync throws
               /\ ConfirmFinally(old, tk, "ConfirmError", "local", e)
       ELSE /\ Goto(old, [tk EXCEPT !.pc = "write", !.profile = sess.profile])
            /\ Apply(e)
            /\ UNCHANGED localFile

\* The code from the first emptiness test to the write-back (sync.ts
\* 197-224), run with the content content0 resolved from the document or
\* the disk, the scratch files being tmp.  this.currentSession is read
\* again at each use; reading a field of null throws a TypeError, which
\* the catch block reports.
ConfirmContinue(old, content0, tmp) ==
    LET sess == currentSession
        e    == [Cur EXCEPT !.tmp = tmp]
        cand == sess.candidateUri
        content == IF IsBlank(content0) /\ sess.active /\ tmp[cand].exists
                   THEN tmp[cand].data ELSE content0
        tk   == [old EXCEPT !.content = content]
        path == getProfile(sess.profile).filePath
    IN IF IsBlank(content0) /\ ~sess.active
       THEN ConfirmFinally(old, tk, "ConfirmError", "none", e)
            /\ UNCHANGED localFile
       ELSE IF IsBlank(content)
       THEN ConfirmFinally(old, tk, "Unreadable", "none", e)
            /\ UNCHANGED localFile
       ELSE IF ~sess.active
       THEN ConfirmFinally(old, tk, "ConfirmError", "none", e)
            /\ UNCHANGED localFile
       ELSE IF sess.type = "download"
       THEN \/ /\ localFile' = [localFile EXCEPT ![path] = File(content)]
               /\ ConfirmFinally(old, tk, "Downloaded", "none", e)
            \/ /\ UNCHANGED localFile           \* writeFileSync throws
               /\ ConfirmFinally(old, tk, "ConfirmError", "local", e)
       ELSE /\ Goto(old, [tk EXCEPT !.pc = "write", !.profile = sess.profile])
            /\ Apply(e)
            /\ UNCHANGED localFile

\* The command is invoked (sync.ts 171-195): no session, or the candidate
\* document is dirty and is saved first, or the content is at hand.
ConfirmInvoke ==
    /\ CanInvoke
    /\ LET tk   == [NewTask EXCEPT !.kind = "confirm",
                                   !.onSession = currentSession]
           cand == currentSession.candidateUri
       IN IF ~currentSession.active
          THEN /\ Finish(tk, tk, "NoActiveSession", "none")
               /\ UNCHANGED <<localFile, sessVars>>
          ELSE IF docs[cand].open /\ docs[cand].dirty
          THEN /\ Goto(tk, [tk EXCEPT !.pc = "save", !.doc = cand])
               /\ UNCHANGED <<localFile, sessVars>>
          ELSE ConfirmContinue(tk,
                  IF docs[cand].open THEN docs[cand].text
                  ELSE IF tmpFiles[cand].exists THEN tmpFiles[cand].data
                  ELSE <<>>,
                  tmpFiles)
    /\ UNCHANGED <<remote, credential, now, started, editorVars>>

\* doc.save() resolves (sync.ts 188-190): the buffer is on disk and the
\* text is taken from the document; or the save is rejected.
ConfirmSave(tk) ==
    /\ tk.pc = "save"
    /\ LET d == docs[tk.doc]
       IN \/ /\ docs' = [docs EXCEPT ![tk.doc].dirty = FALSE]
             /\ ConfirmContinue(tk, d.text,
                                [tmpFiles EXCEPT ![tk.doc] = File(d.text)])
          \/ /\ UNCHANGED <<docs, localFile>>
             /\ ConfirmFinally(tk, tk, "ConfirmError", "save", Cur)
    /\ UNCHANGED <<remote, credential, now, started, visible>>

\* Mutant of ConfirmWrite: the local file is written before updateRecord
\* is awaited, so it is written when the remote write fails too.
ConfirmWriteLocalFirst(tk) ==
    /\ tk.pc = "write"
    /\ LET p == getProfile(tk.profile)
       IN /\ localFile' = [localFile EXCEPT ![p.filePath] = File(tk.content)]
          /\ \/ /\ UNCHANGED remote
                /\ ConfirmFinally(tk, tk, "ConfirmError", "remote", Cur)
             \/ /\ credential
                /\ remote' =
                      [remote EXCEPT ![RecordKey(p)] = File(tk.content)]
                /\ ConfirmFinally(tk, tk,
                      IF currentSession.active THEN "Uploaded"
                      ELSE "ConfirmError", "none", Cur)
    /\ UNCHANGED <<credential, now, started, editorVars>>

\* DatabaseService.updateRecord resolves or rejects (sync.ts 218-224,
\* db.ts 95-105, 121-133); on success the local file is mirrored.
ConfirmWrite(tk) ==
    /\ tk.pc = "write"
    /\ LET p == getProfile(tk.profile)
       IN \/ /\ UNCHANGED storeVars    \* no connection string, or query fails
             /\ ConfirmFinally(tk, tk, "ConfirmError", "remote", Cur)
          \/ /\ credential
             /\ remote' = [remote EXCEPT ![RecordKey(p)] = File(tk.content)]
             /\ \/ /\ localFile' =
                        [localFile EXCEPT ![p.filePath] = File(tk.content)]
                   /\ ConfirmFinally(tk, tk,
                         IF currentSession.active THEN "Uploaded"
                         ELSE "ConfirmError", "none", Cur)
                \/ /\ UNCHANGED localFile       \* writeFileSync throws
                   /\ ConfirmFinally(tk, tk, "ConfirmError", "local", Cur)
    /\ UNCHANGED <<credential, now, started, editorVars>>

\* ------------------------------------------------------------- cancelSync
\* Mutant of CancelSync: without a session the editor is closed all the
\* same.
CancelSyncClosing ==
    /\ CanInvoke
    /\ LET tk == [NewTask EXCEPT !.kind = "cancel",
                                 !.onSession = currentSession]
       IN IF ~currentSession.active
          THEN /\ Finish(tk, tk, "CancelNoop", "none")
               /\ Apply([Cur EXCEPT !.pend = @ + 1])
          ELSE ConfirmFinally(tk, tk, "Cancelled", "none", Cur)
    /\ UNCHANGED <<storeVars, credential, now, started, editorVars>>

\* sync.ts 234-240
CancelSync ==
    /\ CanInvoke
    /\ LET tk == [NewTask EXCEPT !.kind = "cancel",
                                 !.onSession = currentSession]
       IN IF ~currentSession.active
          THEN Finish(tk, tk, "CancelNoop", "none") /\ UNCHANGED sessVars
          ELSE ConfirmFinally(tk, tk, "Cancelled", "none", Cur)
    /\ UNCHANGED <<storeVars, credential, now, started, editorVars>>

\* ------------------------------------------------------------ environment
\* A step of the editor or of the user: no invocation moves or returns.
Quiet ==
    tasks' = tasks /\ report' = NoReport /\ UNCHANGED <<dbVars, mruVars>>

\* A change of the visible editors is delivered to the close listeners.
Deliver(vis) == Apply(onDidChangeVisibleTextEditors(Cur, vis))

\* The user closes a diff view, or brings another tab in front of it for
\* good: the view leaves the visible editors.
CloseView(v) ==
    /\ v \in visible
    /\ visible' = visible \ {v}
    /\ docs' = closeDocuments(docs, {v})
    /\ Deliver(visible')
    /\ Quiet
    /\ UNCHANGED <<storeVars, credential, now, started>>

\* Some editor that is not a diff view becomes visible or hidden.
OtherEditorChange ==
    /\ liveListeners > 0
    /\ Deliver(visible)
    /\ Quiet
    /\ UNCHANGED <<storeVars, credential, now, started, editorVars>>

\* workbench.action.closeActiveEditor runs (sync.ts 251): it closes the
\* editor that is active then, a visible diff view or some other editor.
CloseActiveEditor ==
    /\ pendingClose > 0
    /\ LET e == [Cur EXCEPT !.pend = pendingClose - 1]
       IN \/ \E v \in visible :
                /\ visible' = visible \ {v}
                /\ docs' = closeDocuments(docs, {v})
                /\ Apply(onDidChangeVisibleTextEditors(e, visible'))
          \/ /\ UNCHANGED <<docs, visible>>
             /\ Apply(onDidChangeVisibleTextEditors(e, visible))
    /\ Quiet
    /\ UNCHANGED <<storeVars, credential, now, started>>

\* The user edits the candidate side of the diff view of the session.
UserEdit(v, c) ==
    /\ v \in visible
    /\ currentSession.active /\ currentSession.candidateUri = v[2]
    /\ docs[v[2]].open
    /\ docs[v[2]].text # c
    /\ ~docs[v[2]].dirty
    /\ docs' = [docs EXCEPT ![v[2]].text = c, ![v[2]].dirty = TRUE]
    /\ Quiet
    /\ UNCHANGED <<storeVars, credential, now, started, visible, sessVars>>

\* The user saves the edited candidate.
UserSave(v) ==
    /\ v \in visible
    /\ currentSession.active /\ currentSession.candidateUri = v[2]
    /\ docs[v[2]].dirty
    /\ docs' = [docs EXCEPT ![v[2]].dirty = FALSE]
    /\ tmpFiles' = [tmpFiles EXCEPT ![v[2]] = File(docs[v[2]].text)]
    /\ Quiet
    /\ UNCHANGED <<storeVars, credential, now, started, visible,
                   currentSession, liveListeners, pendingClose, isSyncing>>

Next ==
    \/ \E k \in {"download", "upload"}, n \in ProfileNames : StartInvoke(k, n)
    \/ \E tk \in Suspended : StartFetch(tk)
    \/ \E tk \in Suspended : StartLang(tk)
    \/ \E tk \in Suspended : StartSetLang(tk)
    \/ \E tk \in Suspended : StartDiff(tk)
    \/ ConfirmInvoke
    \/ \E tk \in Suspended : ConfirmSave(tk)
    \/ \E tk \in Suspended : ConfirmWrite(tk)
    \/ CancelSync
    \/ \E v \in visible : CloseView(v)
    \/ OtherEditorChange
    \/ CloseActiveEditor
    \/ \E v \in visible, c \in EditContents : UserEdit(v, c)
    \/ \E v \in visible : UserSave(v)

Spec == Init /\ [][Next]_vars

\* ------------------------------------------- DatabaseService (DbSpec)
\* fetchRecord and updateRecord of db.ts with getSql, and
\* ConfigManager.setConnectionString of config.ts, await by await.  The
\* config file holds no connection string (the deprecated fallback of
\* config.ts 73-85 is not taken) and SecretStorage is initialised.
DbQuiet == UNCHANGED <<syncVars, mruVars>>

DbWithout(c) == IF c.pc = "new" THEN dbCalls ELSE dbCalls (-) SetToBag({c})

NewDbCall ==
    [op |-> "none", data |-> <<>>, pc |-> "new", connectionString |-> <<>>,
     sql |-> NoHandle, epoch |-> 0]

\* fetchRecord / updateRecord up to the first await (db.ts 107-113,
\* 121-127, 57-60, 71-80): the table name is validated, then getSql
\* registers the change listener and asks for the connection string.
DbInvoke(op, data) ==
    /\ BagCardinality(dbCalls) < MaxDbCalls
    /\ IF ~validateTableName(dbTableName)
       THEN /\ dbReport' = [op |-> op, msg |-> "InvalidTableName"]
            /\ UNCHANGED <<isConnectionStringListenerRegistered, dbCalls>>
       ELSE /\ isConnectionStringListenerRegistered' = TRUE
            /\ dbCalls' = dbCalls (+) SetToBag({
                   [NewDbCall EXCEPT !.op = op, !.data = data, !.pc = "cred",
                                     !.epoch = setsDone] })
            /\ dbReport' = NoDbReport
    /\ UNCHANGED <<dbTableName, secret, sqlCache, setCalls, setsDone, rows,
                   queried, dbNow>>
    /\ DbQuiet

\* secrets.get resolves (config.ts 64-71, 87): the call holds the entry
\* as it is now.
DbCredRead(c) ==
    /\ c.pc = "cred"
    /\ dbCalls' = DbWithout(c) (+)
                     SetToBag({[c EXCEPT !.pc = "sql",
                                         !.connectionString = secret]})
    /\ dbReport' = NoDbReport
    /\ UNCHANGED <<dbTableName, secret, sqlCache,
                   isConnectionStringListenerRegistered, setCalls, setsDone,
                   rows, queried, dbNow>>
    /\ DbQuiet

\* getSql resumes with the connection string (db.ts 49-55, 60-68): no
\* string throws; otherwise the handle cached under the trimmed string is
\* taken, or one is built and cached, and the query is issued.
DbGetSql(c) ==
    /\ c.pc = "sql"
    /\ IF c.connectionString = <<>>
       THEN /\ dbCalls' = DbWithout(c)
            /\ dbReport' = [op |-> c.op, msg |-> "NoConnectionString"]
            /\ UNCHANGED sqlCache
       ELSE LET key == Trim(c.connectionString)
                cached == { e \in sqlCache : e.key = key }
                sql == IF cached # {} THEN (CHOOSE e \in cached : TRUE).sql
                       ELSE neon(key)
            IN /\ sqlCache' = sqlCache \cup {[key |-> key, sql |-> sql]}
               /\ dbCalls' = DbWithout(c) (+)
                     SetToBag({[c EXCEPT !.pc = "query", !.sql = sql]})
               /\ dbReport' = NoDbReport
    /\ UNCHANGED <<dbTableName, secret,
                   isConnectionStringListenerRegistered, setCalls, setsDone,
                   rows, queried, dbNow>>
    /\ DbQuiet

\* Mutant of Upsert: the row is replaced, create_time included.
UpsertReplacing(r, id, data, t) == [r EXCEPT ![id] = Row(data, t, t)]

\* INSERT ... ON CONFLICT (id) DO UPDATE SET data = $2, update_time =
\* CURRENT_TIMESTAMP (db.ts 97-102), run at time t on the rows r.
Upsert(r, id, data, t) ==
    [r EXCEPT ![id] = IF @.exists
                      THEN [@ EXCEPT !.data = data, !.update_time = t]
                      ELSE Row(data, t, t)]

\* The readings CURRENT_TIMESTAMP can return: the last one or a later one.
DbReadings == IF dbNow < 0 THEN {0} ELSE dbNow..MaxDbClock

\* sql.query resolves or rejects (db.ts 82-105): the SELECT or the upsert
\* has run on the table, for the id of the profile.
DbQuery(c) ==
    /\ c.pc = "query"
    /\ dbCalls' = DbWithout(c)
    /\ \/ /\ dbReport' = [op |-> c.op, msg |-> "QueryError"]
          /\ UNCHANGED <<rows, queried, dbNow>>
       \/ /\ c.op = "fetch"
          /\ dbReport' = [op |-> c.op,
                          msg |-> IF rows["app-settings"].exists
                                  THEN "Fetched" ELSE "NoRecord"]
          /\ queried' = queried \cup {dbTableName}
          /\ UNCHANGED <<rows, dbNow>>
       \/ /\ c.op = "update"
          /\ dbNow' \in DbReadings
          /\ rows' = Upsert(rows, "app-settings", c.data, dbNow')
          /\ queried' = queried \cup {dbTableName}
          /\ dbReport' = [op |-> c.op, msg |-> "Updated"]
    /\ UNCHANGED <<dbTableName, secret, sqlCache,
                   isConnectionStringListenerRegistered, setCalls, setsDone>>
    /\ DbQuiet

\* ConfigManager.setConnectionString(url) up to secrets.store (config.ts
\* 90-92).
SetInvoke(url) ==
    /\ setsDone + BagCardinality(setCalls) < MaxSets
    /\ setCalls' = setCalls (+) SetToBag({[url |-> url, pc |-> "store"]})
    /\ dbReport' = NoDbReport
    /\ UNCHANGED <<dbTableName, secret, sqlCache,
                   isConnectionStringListenerRegistered, dbCalls, setsDone,
                   rows, queried, dbNow>>
    /\ DbQuiet

\* secrets.store resolves (config.ts 92-94): the entry holds the url and
\* removeConnectionStringFromFile is awaited; or the store is rejected.
SetStore(sc) ==
    /\ sc.pc = "store"
    /\ \/ /\ secret' = sc.url
          /\ setCalls' = setCalls (-) SetToBag({sc})
                            (+) SetToBag({[sc EXCEPT !.pc = "remove"]})
          /\ dbReport' = NoDbReport
          /\ UNCHANGED setsDone
       \/ /\ setCalls' = setCalls (-) SetToBag({sc})
          /\ dbReport' = [op |-> "set", msg |-> "SetError"]
          /\ setsDone' = setsDone + 1
          /\ UNCHANGED secret
    /\ UNCHANGED <<dbTableName, sqlCache,
                   isConnectionStringListenerRegistered, dbCalls, rows,
                   queried, dbNow>>
    /\ DbQuiet

\* notifyConnectionStringChanged (config.ts 95, 108-116): the listener of
\* DatabaseService, if registered, clears the cache (db.ts 76-78).
SetNotify(sc) ==
    /\ sc.pc = "remove"
    /\ setCalls' = setCalls (-) SetToBag({sc})
    /\ sqlCache' = IF isConnectionStringListenerRegistered THEN {}
                   ELSE sqlCache
    /\ setsDone' = setsDone + 1
    /\ dbReport' = [op |-> "set", msg |-> "SetDone"]
    /\ UNCHANGED <<dbTableName, secret,
                   isConnectionStringListenerRegistered, dbCalls, rows,
                   queried, dbNow>>
    /\ DbQuiet

\* DatabaseService with a table name and a stored connection string, the
\* orchestrator idle.
DbInit ==
    /\ dbTableName \in DbNames
    /\ secret \in { <<>>, <<"a">> }
    /\ DbFresh
    /\ entry = "config"
    /\ MruFresh(<<"cfg", "bad">>, <<>>)
    /\ localFile = [f \in FilePaths |-> NoFile]
    /\ remote = [k \in RecordKeys |-> NoFile]
    /\ credential = (secret # <<>>)
    /\ now = -1
    /\ started = 0
    /\ tmpFiles = [p \in ScratchPaths |-> NoFile]
    /\ docs = [p \in ScratchPaths |-> ClosedDoc]
    /\ visible = {}
    /\ currentSession = NoSession
    /\ liveListeners = 0
    /\ pendingClose = 0
    /\ isSyncing = FALSE
    /\ tasks = EmptyBag
    /\ report = NoReport

DbNext ==
    \/ DbInvoke("fetch", <<>>)
    \/ \E d \in DbData : DbInvoke("update", d)
    \/ \E c \in BagToSet(dbCalls) : DbCredRead(c)
    \/ \E c \in BagToSet(dbCalls) : DbGetSql(c)
    \/ \E c \in BagToSet(dbCalls) : DbQuery(c)
    \/ \E url \in Urls : SetInvoke(url)
    \/ \E sc \in BagToSet(setCalls) : SetStore(sc)
    \/ \E sc \in BagToSet(setCalls) : SetNotify(sc)

DbSpec == DbInit /\ [][DbNext]_vars

\* ------------------------------------- the profile commands (MruSpec)
\* The commands neonSync.downloadFile and neonSync.uploadFile up to the
\* call of SyncManager.startDownload / startUpload, await by await.  The
\* sources hold two registrations of them: activate in extension.ts 9-70
\* (lastUsedProfile) and activate in config.ts 180-272 (profileOrder,
\* stored in globalState); which one is the entry point of the extension
\* is fixed when it is built.  The configuration file does not change.
Entries == {"extension", "config"}

\* The profile names of the configuration file, in file order.
ConfigLists == { <<>>, <<"p2">>, <<"p1", "p2">>, <<"p1", "p2", "p3">> }

\* What an earlier window left under neonSync.profileOrder; "gone" is a
\* profile that has been removed from the file since.
StoredOrders == { <<>>, <<"p3", "p1">>, <<"gone", "p2">> }

NamesOf(s) == { s[i] : i \in 1..Len(s) }

\* profileOrder.filter((name) => profileNames.has(name))
pruned(order, profiles) ==
    SelectSeq(order, LAMBDA n : n \in NamesOf(profiles))

\* The two assignments of recordProfileUsage (config.ts 217-219).
recordProfileUsage(order, profileName, profiles) ==
    pruned(<<profileName>> \o SelectSeq(order, LAMBDA n : n # profileName),
           profiles)

\* orderIndex.get(name) (config.ts 197), counted from 1; 0 is undefined.
orderIndex(order, n) ==
    IF n \in NamesOf(order)
    THEN CHOOSE i \in 1..Len(order) :
            order[i] = n /\ \A j \in (i + 1)..Len(order) : order[j] # n
    ELSE 0

\* The comparator of the sort: config.ts 199-213 on the saved order,
\* extension.ts 29-33 on the last used profile.
compare(k, a, b) ==
    IF k.entry = "config"
    THEN LET aIndex == orderIndex(k.order, a)
             bIndex == orderIndex(k.order, b)
         IN IF aIndex = 0 /\ bIndex = 0 THEN 0
            ELSE IF aIndex = 0 THEN 1
            ELSE IF bIndex = 0 THEN -1
            ELSE aIndex - bIndex
    ELSE IF a = k.last THEN -1
    ELSE IF b = k.last THEN 1
    ELSE 0

\* x inserted into the sorted sequence s behind every element that does
\* not compare greater, as a stable sort places a later element.
InsertSorted(k, s, x) ==
    LET notGreater == { i \in 1..Len(s) : compare(k, s[i], x) <= 0 }
        at == IF notGreater = {} THEN 0
              ELSE CHOOSE i \in notGreater : \A j \in notGreater : j <= i
    IN SubSeq(s, 1, at) \o <<x>> \o SubSeq(s, at + 1, Len(s))

\* [...profiles].sort(comparator): Array.prototype.sort is stable.
RECURSIVE sortProfiles(_, _)
sortProfiles(k, profiles) ==
    IF profiles = <<>> THEN <<>>
    ELSE InsertSorted(k,
                      sortProfiles(k, SubSeq(profiles, 1, Len(profiles) - 1)),
                      profiles[Len(profiles)])

SortKey == [entry |-> entry, order |-> profileOrder, last |-> lastUsedProfile]

NewPickCall ==
    [kind |-> "none", pc |-> "new", profiles |-> <<>>, items |-> <<>>,
     updating |-> FALSE, dismissed |-> FALSE, selected |-> ""]

PickWithout(c) ==
    IF c.pc = "new" THEN pickCalls ELSE pickCalls (-) SetToBag({c})

\* A quick pick that opens hides the ones that are open: they resolve
\* with undefined.
HideOpenPicks(calls) ==
    LET S == BagToSet(calls)
        hide(c) == IF c.pc = "pick" THEN [c EXCEPT !.dismissed = TRUE] ELSE c
    IN SetToBag({ hide(c) : c \in S })

\* The selection of name is noted in the history.
Used(name) == <<name>> \o SelectSeq(usage, LAMBDA n : n # name)

MruQuiet == UNCHANGED <<syncVars, dbVars>>

\* The sorted list is shown by showQuickPick (config.ts 238-241,
\* extension.ts 29-36).
PickShow(c) ==
    LET items == sortProfiles(SortKey, c.profiles)
    IN /\ pickCalls' = HideOpenPicks(PickWithout(c)) (+)
                          SetToBag({[c EXCEPT !.pc = "pick", !.items = items,
                                              !.updating = FALSE]})
       /\ pickReport' = [msg |-> "Shown", items |-> items, selected |-> ""]

\* The profile name is selected (config.ts 232-233, 242-244, 216-220;
\* extension.ts 23-24, 37-39): the usage is recorded, in config.ts by
\* recordProfileUsage up to its await of globalState.update, and the
\* start command is called.
PickRecord(c, name) ==
    /\ usage' = Used(name)
    /\ IF entry = "config"
       THEN /\ profileOrder' =
                  recordProfileUsage(profileOrder, name, c.profiles)
            /\ globalState' = profileOrder'
            /\ pickCalls' = PickWithout(c) (+)
                  SetToBag({[c EXCEPT !.pc = "persist", !.selected = name]})
            /\ pickReport' =
                  [msg |-> "Selected", items |-> c.items, selected |-> name]
            /\ UNCHANGED lastUsedProfile
       ELSE /\ lastUsedProfile' = name
            /\ pickCalls' = PickWithout(c)
            /\ pickReport' =
                  [msg |-> "Started", items |-> c.items, selected |-> name]
            /\ UNCHANGED <<profileOrder, globalState>>

\* The command is invoked (config.ts 223-238, 185-193; extension.ts
\* 14-36): no profile, one profile (selected at once), or several: in
\* config.ts the saved order is pruned first, and stored if that changed
\* it.
PickInvoke(kind) ==
    /\ picked < MaxPicks
    /\ BagCardinality(pickCalls) < MaxPickCalls
    /\ picked' = picked + 1
    /\ LET c == [NewPickCall EXCEPT !.kind = kind, !.profiles = configured]
       IN IF Len(configured) = 0
          THEN /\ pickReport' = [NoPickReport EXCEPT !.msg = "NoProfiles"]
               /\ UNCHANGED <<profileOrder, lastUsedProfile, globalState,
                              pickCalls, usage>>
          ELSE IF Len(configured) = 1
          THEN PickRecord(c, configured[1])
          ELSE IF entry = "config"
          THEN /\ profileOrder' = pruned(profileOrder, configured)
               /\ globalState' =
                     IF Len(profileOrder') = Len(profileOrder)
                     THEN globalState ELSE profileOrder'
               /\ pickCalls' = pickCalls (+)
                     SetToBag({[c EXCEPT !.pc = "sort", !.updating =
                                  Len(profileOrder') # Len(profileOrder)]})
               /\ pickReport' = NoPickReport
               /\ UNCHANGED <<lastUsedProfile, usage>>
          ELSE /\ PickShow(c)
               /\ UNCHANGED <<profileOrder, lastUsedProfile, globalState,
                              usage>>
    /\ UNCHANGED <<entry, configured>>
    /\ MruQuiet

\* pruneAndPersistProfileOrder returns (config.ts 196-214, 238-241): the
\* list is sorted by the order as it is now and shown; or the update of
\* globalState was rejected and the command fails.
PickSort(c) ==
    /\ c.pc = "sort"
    /\ \/ /\ c.updating
          /\ pickCalls' = PickWithout(c)
          /\ pickReport' = [NoPickReport EXCEPT !.msg = "PersistError"]
       \/ PickShow(c)
    /\ UNCHANGED <<entry, configured, profileOrder, lastUsedProfile,
                   globalState, picked, usage>>
    /\ MruQuiet

\* showQuickPick resolves (config.ts 241-245, extension.ts 36-40) with
\* the item the user chose, or with undefined.
PickSelect(c, name) ==
    /\ c.pc = "pick"
    /\ IF name = ""
       THEN /\ pickCalls' = PickWithout(c)
            /\ pickReport' = [NoPickReport EXCEPT !.msg = "Dismissed"]
            /\ UNCHANGED <<profileOrder, lastUsedProfile, globalState, usage>>
       ELSE /\ ~c.dismissed
            /\ name \in NamesOf(c.items)
            /\ PickRecord(c, name)
    /\ UNCHANGED <<entry, configured, picked>>
    /\ MruQuiet

\* globalState.update resolves or rejects (config.ts 220, 233, 244): the
\* start command is called, or the command fails.
PickPersist(c) ==
    /\ c.pc = "persist"
    /\ pickCalls' = PickWithout(c)
    /\ \/ pickReport' = [msg |-> "Started", items |-> c.items,
                         selected |-> c.selected]
       \/ pickReport' = [NoPickReport EXCEPT !.msg = "PersistError"]
    /\ UNCHANGED <<entry, configured, profileOrder, lastUsedProfile,
                   globalState, picked, usage>>
    /\ MruQuiet

\* The extension activated, the orchestrator and DatabaseService idle.
MruInit ==
    /\ entry \in Entries
    /\ \E profiles \in ConfigLists, stored \in StoredOrders :
          MruFresh(profiles, stored)
    /\ dbTableName = <<"j", "_", "r">>
    /\ secret = <<>>
    /\ DbFresh
    /\ localFile = [f \in FilePaths |-> NoFile]
    /\ remote = [k \in RecordKeys |-> NoFile]
    /\ credential = FALSE
    /\ now = -1
    /\ started = 0
    /\ tmpFiles = [p \in ScratchPaths |-> NoFile]
    /\ docs = [p \in ScratchPaths |-> ClosedDoc]
    /\ visible = {}
    /\ currentSession = NoSession
    /\ liveListeners = 0
    /\ pendingClose = 0
    /\ isSyncing = FALSE
    /\ tasks = EmptyBag
    /\ report = NoReport

MruNext ==
    \/ \E kind \in {"download", "upload"} : PickInvoke(kind)
    \/ \E c \in BagToSet(pickCalls) : PickSort(c)
    \/ \E c \in BagToSet(pickCalls), name \in NamesOf(configured) \cup {""} :
          PickSelect(c, name)
    \/ \E c \in BagToSet(pickCalls) : PickPersist(c)

MruSpec == MruInit /\ [][MruNext]_vars

TypeOK ==
    /\ localFile \in [FilePaths -> FileStates]
    /\ remote \in [RecordKeys -> FileStates]
    /\ tmpFiles \in [ScratchPaths -> FileStates]
    /\ Cardinality(visible) <= 1
    /\ liveListeners \in 0..MaxStarts
    /\ pendingClose \in 0..MaxStarts
    /\ started \in 0..MaxStarts
    /\ now \in -1..MaxClock
    /\ BagCardinality(tasks) <= MaxTasks

\* ================================================================ claims
\* C1: at most one session exists at any time: there are never two sessions
\* that were created by a start and have not been cleaned up (a session
\* created and not cleaned up is one whose close listener is registered
\* and not disposed).
C1_AtMostOneSession == liveListeners <= 1

\* C2: when confirmSync finds the candidate content unreadable, the session
\* remains active afterwards: the slot still holds the session confirmSync
\* was invoked on, its scratch copies exist and the syncing flag is set.
C2_UnreadableKeepsSession ==
    report.msg = "Unreadable" =>
        /\ currentSession = report.session
        /\ currentSession.active
        /\ isSyncing
        /\ \A p \in TempFileSet(report.session) : tmpFiles[p].exists

\* C3: when confirmSync finds the candidate content unreadable (not found,
\* empty, or whitespace only), it writes nothing: the step in which it
\* returns leaves the local file and the remote record as they were, for
\* Download and for Upload sessions.
C3_UnreadableWritesNothing ==
    [][(/\ report'.kind = "confirm"
        /\ report'.session.active
        /\ (report'.content = <<>> \/ Trim(report'.content) = <<>>))
       => UNCHANGED storeVars]_vars

C3_Witness ==
    /\ report.msg = "Unreadable"
    /\ report.session.type = "upload"
    /\ report.content = <<" ">>

\* C4 (as stated): when local content and remote blob are identical, an
\* absent local file counting as empty content on Download, the start
\* creates no session and no scratch files.
C4_IdenticalNoSession ==
    [][\A tk \in Suspended :
          (/\ tk.pc = "fetch"
           /\ CopiesIn(tk, tasks') < CopiesIn(tk, tasks)
           /\ LET p  == getProfile(tk.profile)
                  lf == localFile[p.filePath]
                  rd == remote[RecordKey(p)]
              IN /\ rd.exists
                 /\ (IF lf.exists THEN lf.data ELSE <<>>) = rd.data)
          => /\ currentSession' = currentSession
             /\ tmpFiles' = tmpFiles]_vars

\* C4 (amended): when the local file exists and its content and the remote
\* blob (a missing record counting as empty on Upload) are identical, the
\* start returns at once and creates no session and no scratch files.
C4_IdenticalExistingNoSession ==
    [][\A tk \in Suspended :
          (/\ tk.pc = "fetch"
           /\ CopiesIn(tk, tasks') < CopiesIn(tk, tasks)
           /\ LET p  == getProfile(tk.profile)
                  lf == localFile[p.filePath]
                  rd == remote[RecordKey(p)]
              IN /\ lf.exists
                 /\ (tk.kind = "download" => rd.exists)
                 /\ lf.data = (IF rd.exists THEN rd.data ELSE <<>>))
          => /\ report'.kind = tk.kind
             /\ currentSession' = currentSession
             /\ liveListeners' = liveListeners
             /\ tmpFiles' = tmpFiles]_vars

C4_Witness ==
    /\ report.msg = "Identical"
    /\ report.kind = "download"
    /\ localFile["settings.json"].exists

\* C5: when confirmSync, invoked on a Download session, has resolved
\* readable candidate content and returns without a failed write, the
\* local file holds exactly that content.
C5_DownloadWritesCandidate ==
    (/\ report.kind = "confirm"
     /\ report.session.type = "download"
     /\ ~(report.content = <<>> \/ Trim(report.content) = <<>>)
     /\ report.failed = "none")
    => localFile[getProfile(report.session.profile).filePath]
          = File(report.content)

\* C6: when confirmSync, invoked on an Upload session, has resolved
\* readable candidate content and returns without a failed write, the
\* remote record and the local file both hold that content.
C6_UploadConverges ==
    (/\ report.kind = "confirm"
     /\ report.session.type = "upload"
     /\ ~(report.content = <<>> \/ Trim(report.content) = <<>>)
     /\ report.failed = "none")
    => LET p == getProfile(report.session.profile)
       IN /\ remote[RecordKey(p)] = File(report.content)
          /\ localFile[p.filePath] = File(report.content)

C8_CleanupIdempotent ==
    /\ [](\A b1, b2 \in BOOLEAN :
            cleanupSession(cleanupSession(Cur, b1), b2)
               = cleanupSession(Cur, b1))
    /\ [][(/\ report'.kind = "confirm"
           /\ report'.session.active
           /\ ~currentSession.active)
          => /\ currentSession' = currentSession
             /\ liveListeners' = liveListeners
             /\ pendingClose' = pendingClose
             /\ isSyncing' = isSyncing
             /\ visible' = visible
             /\ \A p \in ScratchPaths :
                   tmpFiles[p].exists => tmpFiles'[p].exists]_vars

C8_Witness ==
    /\ report.kind = "confirm"
    /\ report.msg = "ConfirmError"
    /\ report.failed = "none"
    /\ report.content = <<"a">>

\* C9: when confirmSync was invoked on an active session and a write to
\* the local file or to the remote record failed, then as confirmSync
\* returns the slot is cleared, the scratch files of that session are
\* deleted and the syncing flag is cleared.
C9_WriteFailureCleansUp ==
    (/\ report.kind = "confirm"
     /\ report.session.active
     /\ report.failed \in {"local", "remote"})
    => /\ ~currentSession.active
       /\ ~isSyncing
       /\ \A p \in TempFileSet(report.session) : ~tmpFiles[p].exists

\* C10: a start that fails because the profile is not found, the table
\* name is invalid, the credential is missing or the fetch fails creates
\* no session and no scratch files and leaves an active session as it is.
C10_FailedStartTouchesNothing ==
    [][report'.msg \in {"ProfileNotFound", "InvalidTableName",
                        "NoConnectionString", "FetchError"}
       => UNCHANGED <<currentSession, tmpFiles, liveListeners, pendingClose,
                      isSyncing>>]_vars

C10_Witness ==
    /\ report.msg = "FetchError"
    /\ currentSession.active
    /\ isSyncing

\* C11: scratch-file creation and session registration are atomic for the
\* caller: when a start returns, either the session it built is registered
\* and both of its scratch files exist, or that session is not registered
\* and no scratch file written by that start exists.
C11_StartIsAtomic ==
    report.kind \in {"download", "upload"} =>
        \/ /\ currentSession.active
           /\ currentSession.tempFiles = report.tempFiles
           /\ \A p \in TempFileSet(currentSession) : tmpFiles[p].exists
        \/ /\ ~(/\ currentSession.active
                /\ currentSession.tempFiles = report.tempFiles)
           /\ \A p \in TempFileSet(report) \cap ScratchPaths :
                 ~tmpFiles[p].exists

\* C12: when the remote record is missing and the fetch resolves,
\* startDownload returns with the 'no record' outcome and creates no
\* scratch file and no session, whereas startUpload with a non-empty local
\* file goes on, holding the empty string as the remote content.
C12_MissingRecord ==
    [][\A tk \in Suspended :
          (/\ tk.pc = "fetch"
           /\ CopiesIn(tk, tasks') < CopiesIn(tk, tasks)
           /\ ~remote[RecordKey(getProfile(tk.profile))].exists)
          => LET lf == localFile[getProfile(tk.profile).filePath]
             IN IF tk.kind = "download"
                THEN /\ report'.kind = "download"
                     /\ report'.msg \in {"NoRecord", "FetchError",
                                         "NoConnectionString"}
                     /\ UNCHANGED <<currentSession, liveListeners, tmpFiles>>
                ELSE (lf.exists /\ lf.data # <<>>)
                     => /\ report'.msg \in {"none", "FetchError",
                                            "NoConnectionString"}
                        /\ report'.msg = "none"
                           => [tk EXCEPT !.pc = "lang",
                                         !.remoteContent = <<>>,
                                         !.localContent = lf.data]
                                 \in BagToSet(tasks')]_vars

C12_Witness ==
    /\ report.kind = "download"
    /\ report.msg = "NoRecord"
    /\ currentSession.active
    /\ currentSession.type = "upload"
    /\ ~remote[RecordKey(getProfile(currentSession.profile))].exists
    /\ tmpFiles[currentSession.tempFiles[1]] = File(<<>>)

\* C13: when the local file does not exist and the fetch resolves,
\* startUpload returns with the local-file-missing error, creates no
\* session and no scratch file and leaves the remote record alone, whereas
\* startDownload (the record existing) goes on with empty local content:
\* unless a scratch write fails, the session is registered with an empty
\* reference copy.
C13_MissingLocalFile ==
    [][\A tk \in Suspended :
          (/\ tk.pc = "fetch"
           /\ CopiesIn(tk, tasks') < CopiesIn(tk, tasks)
           /\ ~localFile[getProfile(tk.profile).filePath].exists)
          => LET rd == remote[RecordKey(getProfile(tk.profile))]
             IN IF tk.kind = "upload"
                THEN /\ report'.kind = "upload"
                     /\ report'.msg \in {"LocalFileMissing", "FetchError",
                                         "NoConnectionString"}
                     /\ UNCHANGED <<currentSession, liveListeners, tmpFiles,
                                    remote>>
                ELSE rd.exists
                     => /\ report'.msg \in {"none", "FetchError",
                                            "NoConnectionString",
                                            "ScratchWriteError"}
                        /\ report'.msg = "none"
                           => /\ currentSession'.active
                              /\ currentSession'.type = "download"
                              /\ tmpFiles'[currentSession'.tempFiles[1]]
                                    = File(<<>>)
                              /\ tmpFiles'[currentSession'.tempFiles[2]]
                                    = File(rd.data)]_vars

C13_Witness ==
    /\ report.kind = "upload"
    /\ report.msg = "LocalFileMissing"
    /\ currentSession.active
    /\ currentSession.type = "download"
    /\ ~localFile[getProfile(currentSession.profile).filePath].exists
    /\ tmpFiles[currentSession.tempFiles[1]] = File(<<>>)

\* C14: with no active session, confirmSync (reporting 'no active
\* session') and cancelSync (a no-op) change nothing: no local or remote
\* write, no scratch file deleted, no editor closed, no listener disposed,
\* slot and syncing flag as they were.
C14_NoSessionNoEffect ==
    [][report'.msg \in {"NoActiveSession", "CancelNoop"}
       => UNCHANGED <<localFile, remote, tmpFiles, docs, visible,
                      currentSession, liveListeners, pendingClose,
                      isSyncing>>]_vars

C14_Witness ==
    /\ report.msg \in {"NoActiveSession", "CancelNoop"}
    /\ ~currentSession.active
    /\ \E p \in ScratchPaths : tmpFiles[p].exists

\* C15: fetchRecord and updateRecord reject a table name that is not made
\* of letters, digits and underscores with at most one dot, no part empty
\* or starting with a digit; they reject it before the change listener is
\* registered, a handle is obtained or cached, or a query runs, so with
\* such a name nothing ever reaches the table.  Other names are not
\* rejected.
C15_InvalidTableNameRejected ==
    /\ [](LET n == dbTableName
              dots == { i \in 1..Len(n) : n[i] = "." }
          IN ~(/\ Len(n) > 0
               /\ \A i \in 1..Len(n) :
                     n[i] \in Letters \cup Digits \cup {"_", "."}
               /\ Cardinality(dots) <= 1
               /\ n[1] \notin Digits \cup {"."}
               /\ \A k \in dots : k < Len(n) /\ n[k + 1] \notin Digits)
             => /\ dbCalls = EmptyBag
                /\ sqlCache = {}
                /\ ~isConnectionStringListenerRegistered
                /\ queried = {}
                /\ ~rows["app-settings"].exists)
    /\ [][dbReport'.msg = "InvalidTableName"
          => /\ LET n == dbTableName
                    dots == { i \in 1..Len(n) : n[i] = "." }
                IN ~(/\ Len(n) > 0
                     /\ \A i \in 1..Len(n) :
                           n[i] \in Letters \cup Digits \cup {"_", "."}
                     /\ Cardinality(dots) <= 1
                     /\ n[1] \notin Digits \cup {"."}
                     /\ \A k \in dots :
                           k < Len(n) /\ n[k + 1] \notin Digits)
             /\ UNCHANGED <<sqlCache, isConnectionStringListenerRegistered,
                            dbCalls, rows, queried, secret>>]_vars

C15_Witness ==
    /\ dbTableName = <<"j", ";", "x">>
    /\ dbReport = [op |-> "update", msg |-> "InvalidTableName"]
    /\ queried = {}

\* C16 (as stated): when confirmSync returns on a Download session whose
\* candidate was left unmodified (the content it resolved is the remote
\* blob), having written or having found the candidate unreadable, the
\* local file holds the remote blob, so that a startDownload that follows
\* finds identical content.
C16_RoundTrip ==
    [][(/\ report'.kind = "confirm"
        /\ report'.msg \in {"Downloaded", "Unreadable"}
        /\ report'.session.type = "download"
        /\ LET rd == remote[RecordKey(getProfile(report'.session.profile))]
           IN rd.exists /\ report'.content = rd.data)
       => LET p == getProfile(report'.session.profile)
          IN EarlyReturn("download", localFile'[p.filePath],
                         remote'[RecordKey(p)]) = "Identical"]_vars

\* C16 (amended): when confirmSync succeeds on a Download session whose
\* candidate was left unmodified, the local file holds the remote blob;
\* and a startDownload whose fetch resolves while the local file holds the
\* remote blob reports identical content and creates no session and no
\* scratch file.
C16_RoundTripOnSuccess ==
    /\ [][(/\ report'.kind = "confirm"
           /\ report'.msg = "Downloaded"
           /\ report'.session.type = "download"
           /\ LET rd == remote[RecordKey(getProfile(report'.session.profile))]
              IN rd.exists /\ report'.content = rd.data)
          => LET p == getProfile(report'.session.profile)
             IN /\ remote' = remote
                /\ localFile'[p.filePath] = File(remote[RecordKey(p)].data)]_vars
    /\ [][\A tk \in Suspended :
             (/\ tk.pc = "fetch"
              /\ tk.kind = "download"
              /\ CopiesIn(tk, tasks') < CopiesIn(tk, tasks)
              /\ report'.msg \notin {"FetchError", "NoConnectionString"}
              /\ LET p == getProfile(tk.profile)
                 IN /\ remote[RecordKey(p)].exists
                    /\ localFile[p.filePath]
                          = File(remote[RecordKey(p)].data))
             => /\ report'.msg = "Identical"
                /\ UNCHANGED <<currentSession, liveListeners, tmpFiles>>]_vars

C16_Witness ==
    /\ report.kind = "download"
    /\ report.msg = "Identical"
    /\ pendingClose > 0
    /\ \E v \in visible :
          /\ v[2].side = "remote"
          /\ docs[v[2]].open
          /\ ~docs[v[2]].dirty
          /\ localFile[getProfile(v[2].name).filePath] = File(docs[v[2]].text)

\* C17: the scratch copies carry the right sides.  When a start has
\* fetched, it holds the local content (empty when the file is absent)
\* and the remote blob (empty when the record is missing); when it writes
\* the copies, on Download the reference copy local_* holds the local
\* content and the candidate copy remote_* the remote blob, on Upload the
\* reference copy remote_* holds the remote blob and the candidate copy
\* local_* the local content; and the session registered has the
\* candidate copy as its candidate handle.
C17_ScratchSides ==
    [][LET New(t) == CopiesIn(t, tasks') > CopiesIn(t, tasks)
           Sides(t, lc, rc) ==
               IF t.kind = "download"
               THEN /\ t.left.side = "local"
                    /\ tmpFiles'[t.left] = File(lc)
                    /\ t.right.side = "remote"
                    /\ tmpFiles'[t.right] = File(rc)
               ELSE /\ t.left.side = "remote"
                    /\ tmpFiles'[t.left] = File(rc)
                    /\ t.right.side = "local"
                    /\ tmpFiles'[t.right] = File(lc)
       IN /\ \A tk \in Suspended, t \in BagToSet(tasks') :
                (/\ tk.pc = "fetch"
                 /\ CopiesIn(tk, tasks') < CopiesIn(tk, tasks)
                 /\ New(t))
                => LET p  == getProfile(tk.profile)
                       lf == localFile[p.filePath]
                       rd == remote[RecordKey(p)]
                       lc == IF lf.exists THEN lf.data ELSE <<>>
                       rc == IF rd.exists THEN rd.data ELSE <<>>
                   IN IF t.pc = "lang"
                      THEN t.localContent = lc /\ t.remoteContent = rc
                      ELSE Sides(t, lc, rc)
          /\ \A tk \in Suspended, t \in BagToSet(tasks') :
                (/\ tk.pc = "lang"
                 /\ CopiesIn(tk, tasks') < CopiesIn(tk, tasks)
                 /\ New(t))
                => Sides(t, tk.localContent, tk.remoteContent)
          /\ (currentSession' # currentSession /\ currentSession'.active)
             => /\ currentSession'.candidateUri
                      = currentSession'.tempFiles[2]
                /\ currentSession'.candidateUri.side
                      = (IF currentSession'.type = "download"
                         THEN "remote" ELSE "local")
                /\ currentSession'.tempFiles[1].side
                      = (IF currentSession'.type = "download"
                         THEN "local" ELSE "remote")]_vars

C17_Witness ==
    /\ report.msg = "Started"
    /\ currentSession.active
    /\ currentSession.type = "upload"
    /\ currentSession.tempFiles = report.tempFiles
    /\ ~remote[RecordKey(getProfile(currentSession.profile))].exists
    /\ tmpFiles[currentSession.tempFiles[1]] = File(<<>>)
    /\ tmpFiles[currentSession.candidateUri]
          = localFile[getProfile(currentSession.profile).filePath]

\* C18: an active session ends only when confirmSync or cancelSync
\* returns or when its candidate view, visible until then, is closed; no
\* other event ends it, in particular no change of the visible editors
\* while the view is still about to be opened.
C18_SessionEndsOnlyByConfirmCancelClose ==
    [][(currentSession.active /\ ~currentSession'.active)
       => \/ report'.kind \in {"confirm", "cancel"}
          \/ \E v \in visible \ visible' :
                v[2] = currentSession.candidateUri]_vars

\* C19: a change of the credential invalidates every cached handle: once
\* setConnectionString calls have returned and none is under way, the
\* cache holds no entry built from another string than the stored one, and
\* a fetchRecord/updateRecord invoked since then queries with a handle
\* built from the stored string.
C19_CacheInvalidated ==
    (setsDone > 0 /\ setCalls = EmptyBag)
    => /\ \A e \in sqlCache : e.sql.builtFrom = Trim(secret)
       /\ \A c \in BagToSet(dbCalls) :
             (c.pc = "query" /\ c.epoch = setsDone)
             => c.sql.builtFrom = Trim(secret)

\* C20: updateRecord is an upsert keyed on id.  When its query has run,
\* a row that did not exist is inserted with the data and the current
\* time as create_time and update_time; a row that existed has the new
\* data and update_time and its create_time as before; no row with
\* another id is changed.
C20_UpdateIsUpsert ==
    [][\A c \in BagToSet(dbCalls) :
          (/\ c.pc = "query"
           /\ c.op = "update"
           /\ CopiesIn(c, dbCalls') < CopiesIn(c, dbCalls)
           /\ dbReport'.msg = "Updated")
          => LET old == rows["app-settings"]
                 new == rows'["app-settings"]
             IN /\ \A i \in DbIds \ {"app-settings"} : rows'[i] = rows[i]
                /\ new.exists
                /\ new.data = c.data
                /\ new.update_time = dbNow'
                /\ new.create_time =
                      (IF old.exists THEN old.create_time ELSE dbNow')]_vars

C20_Witness ==
    /\ dbReport = [op |-> "update", msg |-> "Updated"]
    /\ rows["app-settings"].exists
    /\ rows["app-settings"].data = <<" ", "a">>
    /\ rows["app-settings"].create_time < rows["app-settings"].update_time
    /\ rows["other"] = Row(<<"a">>, 0, 0)

\* C21: the list a profile command shows is in most-recently-used order:
\* it holds the configured profiles, the ones selected so far first, the
\* most recent selection first; and when a selection has been recorded
\* and the start command is called, the stored order equals the order in
\* memory.
C21_MruOrder ==
    LET inMemory == IF entry = "config" THEN profileOrder
                    ELSE IF lastUsedProfile = "" THEN <<>>
                    ELSE <<lastUsedProfile>>
    IN /\ pickReport.msg = "Shown"
          => /\ Len(pickReport.items) = Len(configured)
             /\ NamesOf(pickReport.items) = NamesOf(configured)
             /\ SubSeq(pickReport.items, 1, Len(usage)) = usage
       /\ pickReport.msg = "Started" => globalState = inMemory

\* C22: the close listener does not clean up a session before its diff
\* view has been opened: while the start that registered the current
\* session still waits for setContext and vscode.diff, a step of the
\* editor (a visible-editors event is delivered, no command moves) leaves
\* the session in the slot, its scratch files in place and the syncing
\* flag set.
C22_NoCleanupBeforeViewOpen ==
    [][\A tk \in Suspended :
          (/\ tk.pc = "diff"
           /\ currentSession.active
           /\ currentSession.tempFiles = <<tk.left, tk.right>>
           /\ tasks' = tasks
           /\ report' = NoReport)
          => /\ currentSession' = currentSession
             /\ tmpFiles' = tmpFiles
             /\ isSyncing']_vars

\* C23: whenever no command is in progress, the context key
\* neonSync.isSyncing is true exactly when a session is in the slot.
C23_FlagMirrorsSlot ==
    tasks = EmptyBag => (isSyncing <=> currentSession.active)

\* A cancel has cleaned up a registered session and the flag is cleared.
C23_Witness ==
    /\ tasks = EmptyBag
    /\ report.msg = "Cancelled"
    /\ report.session.active
    /\ ~currentSession.active
    /\ ~isSyncing

\* C24: the close listener, confirmSync and cancelSync race only over
\* which of them cleans up a session.  A listener is disposed, and a
\* scratch file is deleted, only in a step that takes the session out of
\* the slot, one listener and only the files of that session; the session
\* is in the slot no more afterwards, so for one session this happens at
\* most once.
C24_CleanupAtMostOnce ==
    [][/\ liveListeners' >= liveListeners - 1
       /\ liveListeners' < liveListeners
          => currentSession.active /\ currentSession' = NoSession
       /\ \A p \in ScratchPaths :
             (tmpFiles[p].exists /\ ~tmpFiles'[p].exists)
             => /\ currentSession.active
                /\ currentSession' = NoSession
                /\ p \in TempFileSet(currentSession)]_vars

\* The listener has won the race against a confirmSync that is suspended.
C24_Witness ==
    \E tk \in Suspended :
       /\ tk.kind = "confirm"
       /\ tk.onSession.active
       /\ ~currentSession.active
       /\ liveListeners = 0
       /\ \A p \in TempFileSet(tk.onSession) : ~tmpFiles[p].exists

\* C25: operations on the slot do not overlap.  While a confirmSync that
\* has read the slot is suspended (on doc.save or on updateRecord) and
\* has its last access to the slot, the cleanup of its finally block,
\* still before it, no step of another operation writes the slot.
C25_NoOverlap ==
    [][\A tk \in Suspended :
          (/\ tk.kind = "confirm"
           /\ CopiesIn(tk, tasks') >= CopiesIn(tk, tasks))
          => currentSession' = currentSession]_vars

\* C26: cleanup closes no editor but the diff view of the session.  A
\* cleanup by the close listener (the slot is cleared in a step in which
\* no command returns) issues no close command; and a close command
\* issued by cleanupSession, when it runs, closes a diff view.
C26_ClosesOnlyDiffView ==
    [][/\ (/\ currentSession.active
           /\ ~currentSession'.active
           /\ tasks' = tasks
           /\ report' = NoReport)
          => pendingClose' <= pendingClose
       /\ pendingClose' < pendingClose
          => \E v \in visible : visible' = visible \ {v}]_vars

\* C27: scratch paths are unique per invocation.  When a start command
\* creates its two scratch copies (it leaves the await of fetchRecord or
\* of getLanguageIdForFile with its paths chosen), the two paths differ
\* and neither is the path of a scratch file that another invocation has
\* created and that still exists.
C27_ScratchPathsUnique ==
    [][\A o \in Suspended, t \in BagToSet(tasks') :
          (/\ o.pc \in {"fetch", "lang"}
           /\ CopiesIn(o, tasks') < CopiesIn(o, tasks)
           /\ t.pc \in {"setlang", "diff"}
           /\ CopiesIn(t, tasks') > CopiesIn(t, tasks))
          => /\ t.left # t.right
             /\ ~tmpFiles[t.left].exists
             /\ ~tmpFiles[t.right].exists]_vars

\* C28: scratch copies are deleted when their session ends.  Whenever no
\* session is in the slot and no start command is in progress, no scratch
\* file exists.
C28_NoScratchWithoutSession ==
    (/\ ~currentSession.active
     /\ \A tk \in Suspended : tk.kind \notin {"download", "upload"})
    => \A p \in ScratchPaths : ~tmpFiles[p].exists

\* C29: the cleanup at the end of confirmSync touches only the session
\* confirmSync was invoked on.  When a confirmSync returns while the slot
\* holds another session (registered during its await), that session
\* stays in the slot, its scratch files stay on disk, no listener is
\* disposed and no close command is issued.
C29_ConfirmCleansOwnSession ==
    [][(/\ report'.kind = "confirm"
        /\ report'.session.active
        /\ currentSession.active
        /\ currentSession # report'.session)
       => /\ currentSession' = currentSession
          /\ \A p \in TempFileSet(currentSession) :
                tmpFiles[p].exists => tmpFiles'[p].exists
          /\ liveListeners' = liveListeners
          /\ pendingClose' = pendingClose
          /\ isSyncing' = isSyncing]_vars

\* C30: candidate content is written to the destination of its own
\* session.  When a confirmSync resumes from doc.save() with the text of
\* the candidate document of the session it was invoked on, and goes on
\* to its write-back (the local file is written, or updateRecord is
\* called), the direction and the profile it uses are those of that
\* session.
C30_WriteBackToOwnSession ==
    [][\A tk \in Suspended :
          (/\ tk.pc = "save"
           /\ CopiesIn(tk, tasks') < CopiesIn(tk, tasks)
           /\ ~IsBlank(docs[tk.doc].text)
           /\ \/ report'.msg = "Downloaded"
              \/ \E t \in BagToSet(tasks') :
                    /\ t.pc = "write"
                    /\ CopiesIn(t, tasks') > CopiesIn(t, tasks))
          => /\ currentSession.type = tk.onSession.type
             /\ currentSession.profile = tk.onSession.profile]_vars

\* C31: a session is written back at most once.  At no moment are two
\* calls of updateRecord in flight that were issued by confirmSync
\* invocations on the same Upload session.
C31_OneRemoteWrite ==
    \A t1, t2 \in Suspended :
       (/\ t1.pc = "write"
        /\ t2.pc = "write"
        /\ t1.onSession = t2.onSession)
       => t1 = t2 /\ CopiesIn(t1, tasks) = 1

\* C32: the outcome confirmSync reports matches what it wrote.  When a
\* confirmSync returns from its await of updateRecord, it reports success
\* only if the remote record and the local file hold the candidate
\* content, and it reports an error only if one of the two writes failed.
C32_OutcomeMatchesWrites ==
    [][\A tk \in Suspended :
          (/\ tk.pc = "write"
           /\ CopiesIn(tk, tasks') < CopiesIn(tk, tasks)
           /\ report'.kind = "confirm")
          => LET p == getProfile(tk.profile)
             IN /\ report'.msg = "Uploaded"
                   => /\ remote'[RecordKey(p)] = File(tk.content)
                      /\ localFile'[p.filePath] = File(tk.content)
                /\ report'.msg = "ConfirmError"
                   => report'.failed # "none"]_vars

C34_ListenersFollowSessions ==
    /\ liveListeners <= 1
    /\ ~currentSession.active => liveListeners = 0

====
